---- MODULE Spec2Model ----
(***************************************************************************)
(* A model of gsd_estimate: the Series Loader (loader.py) and the          *)
(* Geometric Statistics Calculator (calculator.py).                        *)
(*                                                                         *)
(* A delimited file is the sequence of rows the csv module yields for it,  *)
(* each row a sequence of field strings.  A float is the pair mantissa,    *)
(* decimal exponent (m * 10^e) or NaN; logarithms are kept in fixed point  *)
(* (tenths of a nat), which is enough to decide which of the calculator's  *)
(* exp / pow calls leave the range of a double.                            *)
(***************************************************************************)
EXTENDS Integers, Sequences, FiniteSets, TLC

\* Largest number of rows of an input file over the core field strings.
MaxRows == 3
\* Largest number of rows of an input file over every field string.
MaxShortRows == 2
\* Largest number of samples handed directly to compute_gsd.
MaxSamples == 3

VARIABLES
    file,        \* the rows of the source, header row (if any) included
    column,      \* the Column Reference given by the caller
    effective,   \* the column name _read_named_column settles on
    pc,          \* where the call stands
    fieldnames,  \* csv.DictReader.fieldnames once read
    pos,         \* number of rows the csv reader has consumed
    out,         \* the values the column generator has yielded so far
    result,      \* outcome of load_numeric_series
    samples,     \* argument of compute_gsd
    stats        \* outcome of compute_gsd

vars == <<file, column, effective, pc, fieldnames, pos, out, result, samples, stats>>

-----------------------------------------------------------------------------
(* Floats *)

NaN == [nan |-> TRUE, m |-> 0, e |-> 0]

Num(m, e) == [nan |-> FALSE, m |-> m, e |-> e]

\* x <= 0 on floats: every comparison with NaN is false.
LeZero(x) == ~x.nan /\ x.m <= 0

\* Field strings of the model's files: a label, two positive numbers and
\* zero; then a negative number and the literal float() reads as NaN.
CoreTokens == {"value", "1", "2", "0"}

Tokens == CoreTokens \cup {"-1", "nan"}

\* Python's float(str): [ok, val]; ok = FALSE stands for ValueError.
FloatOf(text) ==
    CASE text = "1" -> [ok |-> TRUE, val |-> Num(1, 0)]
      [] text = "2" -> [ok |-> TRUE, val |-> Num(2, 0)]
      [] text = "0" -> [ok |-> TRUE, val |-> Num(0, 0)]
      [] text = "-1" -> [ok |-> TRUE, val |-> Num(-1, 0)]
      [] text = "nan" -> [ok |-> TRUE, val |-> NaN]
      [] OTHER -> [ok |-> FALSE, val |-> NaN]

-----------------------------------------------------------------------------
(* Outcomes *)

\* An outcome of load_numeric_series: the series returned, or the exception
\* raised: its class, its message, and the column the message names.
Pending == [kind |-> "pending", series |-> <<>>, type |-> "", msg |-> "", about |-> ""]

Returned(series) ==
    [kind |-> "ok", series |-> series, type |-> "", msg |-> "", about |-> ""]

Raised(type, msg, about) ==
    [kind |-> "error", series |-> <<>>, type |-> type, msg |-> msg, about |-> about]

MsgMissingHeader == "input file is missing a header row"
MsgNotInHeader == "column ... is not present in the file header"
MsgExceedsWidth == "column index ... exceeds row width"
MsgNotPositive == "geometric statistics require strictly positive samples"
MsgNotAFloat == "could not convert string to float"
MsgNoneIterable == "argument of type 'NoneType' is not iterable"
MsgFloatOfNone == "float() argument must be a string or a real number"
MsgTooFew == "at least two samples are required to estimate spread"
MsgOutOfRange == "math range error"
MsgPowOutOfRange == "(34, 'Numerical result out of range')"

-----------------------------------------------------------------------------
(* Series Loader *)

\* A field of a row as csv.DictReader hands it out: a string, or None
\* (restval) when the row is shorter than the header.
Field(text) == [present |-> TRUE, text |-> text]

RestVal == [present |-> FALSE, text |-> ""]

\* _parse_positive_float with the test written parsed < 0.
ParsePositiveFloatAcceptsZero(value) ==
    IF ~value.present
    THEN [ok |-> FALSE, val |-> NaN, type |-> "TypeError", msg |-> MsgFloatOfNone]
    ELSE LET parsed == FloatOf(value.text) IN
         IF ~parsed.ok
         THEN [ok |-> FALSE, val |-> NaN, type |-> "ValueError", msg |-> MsgNotAFloat]
         ELSE IF ~parsed.val.nan /\ parsed.val.m < 0
         THEN [ok |-> FALSE, val |-> NaN, type |-> "ValueError", msg |-> MsgNotPositive]
         ELSE [ok |-> TRUE, val |-> parsed.val, type |-> "", msg |-> ""]

\* _parse_positive_float: [ok, val, type, msg].
ParsePositiveFloat(value) ==
    IF ~value.present
    THEN [ok |-> FALSE, val |-> NaN, type |-> "TypeError", msg |-> MsgFloatOfNone]
    ELSE LET parsed == FloatOf(value.text) IN
         IF ~parsed.ok
         THEN [ok |-> FALSE, val |-> NaN, type |-> "ValueError", msg |-> MsgNotAFloat]
         ELSE IF LeZero(parsed.val)
         THEN [ok |-> FALSE, val |-> NaN, type |-> "ValueError", msg |-> MsgNotPositive]
         ELSE [ok |-> TRUE, val |-> parsed.val, type |-> "", msg |-> ""]

\* The Column Reference: unspecified, a name, or a zero-based index.
Unspecified == [kind |-> "none", name |-> "", index |-> 0]

ByName(name) == [kind |-> "name", name |-> name, index |-> 0]

ByIndex(index) == [kind |-> "index", name |-> "", index |-> index]

\* load_numeric_series picks csv.DictReader for None or a string.
UsesDictReader(col) == col.kind = "none" \/ col.kind = "name"

\* csv.DictReader.fieldnames: the first row of the stream, None when the
\* stream has no row at all.
NoFieldnames == [present |-> FALSE, names |-> <<>>]

ReadFieldnames(rows) ==
    IF Len(rows) = 0 THEN NoFieldnames ELSE [present |-> TRUE, names |-> rows[1]]

\* The header resolution with one message for every failure.
ResolveColumnOneMessage(col, fnames) ==
    LET chosen ==
            IF col.kind = "none"
            THEN IF fnames.present /\ Len(fnames.names) > 0
                 THEN fnames.names[1]
                 ELSE ""
            ELSE col.name
    IN  IF fnames.present /\ \E i \in 1..Len(fnames.names) : fnames.names[i] = chosen
        THEN [ok |-> TRUE, name |-> chosen, type |-> "", msg |-> ""]
        ELSE [ok |-> FALSE, name |-> "", type |-> "ColumnNotFoundError", msg |-> MsgMissingHeader]

\* Header resolution of _read_named_column: [ok, name, type, msg].
ResolveColumn(col, fnames) ==
    LET chosen ==
            IF col.kind = "none"
            THEN IF fnames.present /\ Len(fnames.names) > 0
                 THEN [ok |-> TRUE, name |-> fnames.names[1]]
                 ELSE [ok |-> FALSE, name |-> ""]
            ELSE [ok |-> TRUE, name |-> col.name]
    IN  IF ~chosen.ok
        THEN [ok |-> FALSE, name |-> "", type |-> "ColumnNotFoundError", msg |-> MsgMissingHeader]
        ELSE IF ~fnames.present
        THEN [ok |-> FALSE, name |-> chosen.name, type |-> "TypeError", msg |-> MsgNoneIterable]
        ELSE IF \A i \in 1..Len(fnames.names) : fnames.names[i] # chosen.name
        THEN [ok |-> FALSE, name |-> chosen.name, type |-> "ColumnNotFoundError", msg |-> MsgNotInHeader]
        ELSE [ok |-> TRUE, name |-> chosen.name, type |-> "", msg |-> ""]

\* csv.DictReader.__next__ skips rows that are []: the position of the next
\* row that is not blank after `from`, 0 when the stream is exhausted.
NextNonBlank(rows, from) ==
    LET later == {i \in (from + 1)..Len(rows) : rows[i] # <<>>}
    IN  IF later = {} THEN 0 ELSE CHOOSE i \in later : \A j \in later : i <= j

\* A lookup by row position that ignores where the header declares the key.
DictFieldFirstOfRow(names, row, key) ==
    IF Len(row) = 0 THEN RestVal ELSE Field(row[1])

\* d[key] of the dict csv.DictReader builds: dict(zip(fieldnames, row)), the
\* last of several equal names winning, then restval for every name past
\* the end of the row.
DictField(names, row, key) ==
    LET at == {i \in 1..Len(names) : names[i] = key}
        last == CHOOSE i \in at : \A j \in at : j <= i
    IN  IF last > Len(row) THEN RestVal ELSE Field(row[last])

-----------------------------------------------------------------------------
(* Geometric Statistics Calculator *)

\* Outcome of compute_gsd.  The exponentials the result holds are kept by
\* their logarithms: geometric_mean = exp(log_mean / 10) and
\* geometric_standard_deviation = exp(sqrt(log_variance) / 10).
NoStats ==
    [kind |-> "pending", sample_size |-> 0, nan |-> FALSE, log_mean |-> 0,
     log_variance |-> 0, type |-> "", msg |-> ""]

StatsReturned(n, isnan, mean, variance) ==
    [kind |-> "ok", sample_size |-> n, nan |-> isnan, log_mean |-> mean,
     log_variance |-> variance, type |-> "", msg |-> ""]

StatsRaised(type, msg) ==
    [kind |-> "error", sample_size |-> 0, nan |-> FALSE, log_mean |-> 0,
     log_variance |-> 0, type |-> type, msg |-> msg]

\* ln 10 and ln of the largest double, in tenths.
Ln10 == 23
LnDblMax == 7098

\* ln of the mantissas the model uses, in tenths.
LnMant(m) == CASE m = 1 -> 0 [] m = 2 -> 7 [] m = 4 -> 14 [] OTHER -> 0

\* math_log of a positive float, in tenths.
MathLog(x) == LnMant(x.m) + x.e * Ln10

RECURSIVE SumSeq(_)
SumSeq(s) == IF s = <<>> THEN 0 ELSE Head(s) + SumSeq(Tail(s))

\* _validate_samples looking at the first sample only.
ValidateSamplesFirstOnly(s) ==
    IF Len(s) < 2 THEN MsgTooFew
    ELSE IF LeZero(s[1]) THEN MsgNotPositive
    ELSE ""

\* _validate_samples: "" when the samples pass, else the message raised.
ValidateSamples(s) ==
    IF Len(s) < 2 THEN MsgTooFew
    ELSE IF \E i \in 1..Len(s) : LeZero(s[i]) THEN MsgNotPositive
    ELSE ""

\* GSDStatistics.from_samples.  math.exp raises OverflowError when its
\* argument exceeds ln(DBL_MAX); float ** 2 raises it when the square leaves
\* the range of a double.  NaN propagates through every step without raising.
FromSamples(s) ==
    LET invalid == ValidateSamples(s) IN
    IF invalid # "" THEN StatsRaised("StatisticsError", invalid)
    ELSE IF \E i \in 1..Len(s) : s[i].nan THEN StatsReturned(Len(s), TRUE, 0, 0)
    ELSE
      LET log_values == [i \in 1..Len(s) |-> MathLog(s[i])]
          log_mean == SumSeq(log_values) \div Len(log_values)
          squared_diffs ==
              [i \in 1..Len(s) |-> (log_values[i] - log_mean) * (log_values[i] - log_mean)]
          log_variance == SumSeq(squared_diffs) \div (Len(log_values) - 1)
      IN  IF log_mean > LnDblMax
          THEN StatsRaised("OverflowError", MsgOutOfRange)
          ELSE IF log_variance > LnDblMax * LnDblMax
          THEN StatsRaised("OverflowError", MsgOutOfRange)
          ELSE IF 4 * log_variance > LnDblMax * LnDblMax
          THEN StatsRaised("OverflowError", MsgPowOutOfRange)
          ELSE StatsReturned(Len(s), FALSE, log_mean, log_variance)

\* compute_gsd materialises its argument and defers to from_samples.
ComputeGsd(s) == FromSamples(s)

-----------------------------------------------------------------------------
(* Inputs *)

\* Rows of at most two fields over the strings of T, and the files of at
\* most n such rows.
RowsOver(T) == UNION {[1..w -> T] : w \in 0..2}

FilesOver(T, n) == UNION {[1..k -> RowsOver(T)] : k \in 0..n}

\* The input files: longer ones over the core strings, shorter ones over all.
Files == FilesOver(CoreTokens, MaxRows) \cup FilesOver(Tokens, MaxShortRows)

\* Column References: unspecified, a name the files can declare, a name they
\* cannot, and the indexes of a two-field row.
Columns == {Unspecified, ByName("value"), ByName("other"), ByIndex(0), ByIndex(1)}

\* Floats handed directly to compute_gsd.
SampleValues ==
    {Num(-1, 0), Num(0, 0), Num(1, 0), Num(2, 0), Num(1, 150), Num(1, -150), NaN}

SampleSeqs == UNION {[1..n -> SampleValues] : n \in 0..MaxSamples}

-----------------------------------------------------------------------------
(* load_numeric_series, one step per row the generator consumes *)

Init ==
    /\ file \in Files
    /\ column \in Columns
    /\ effective = ""
    /\ pc = "start"
    /\ fieldnames = NoFieldnames
    /\ pos = 0
    /\ out = <<>>
    /\ result = Pending
    /\ samples = <<>>
    /\ stats = NoStats

Fail(type, msg, about) ==
    /\ pc' = "returned"
    /\ result' = Raised(type, msg, about)

\* Named or unspecified column: csv.DictReader, then the header resolution
\* that _read_named_column performs before its first row.
OpenNamed ==
    /\ pc = "start"
    /\ UsesDictReader(column)
    /\ LET fnames == ReadFieldnames(file)
           resolved == ResolveColumn(column, fnames)
       IN  /\ fieldnames' = fnames
           /\ pos' = IF fnames.present THEN 1 ELSE 0
           /\ effective' = resolved.name
           /\ IF resolved.ok
              THEN pc' = "named" /\ UNCHANGED result
              ELSE Fail(resolved.type, resolved.msg, resolved.name)
    /\ UNCHANGED <<file, column, out, samples, stats>>

\* for row in reader: yield _parse_positive_float(row[column])
ReadNamedRow ==
    /\ pc = "named"
    /\ NextNonBlank(file, pos) # 0
    /\ LET at == NextNonBlank(file, pos)
           parsed == ParsePositiveFloat(DictField(fieldnames.names, file[at], effective))
       IN  /\ pos' = at
           /\ IF parsed.ok
              THEN /\ out' = Append(out, parsed.val)
                   /\ UNCHANGED <<pc, result>>
              ELSE /\ Fail(parsed.type, parsed.msg, "")
                   /\ out' = out
    /\ UNCHANGED <<file, column, effective, fieldnames, samples, stats>>

\* Positional column: csv.reader, every row is data.
OpenPositional ==
    /\ pc = "start"
    /\ ~UsesDictReader(column)
    /\ pc' = "positional"
    /\ UNCHANGED <<file, column, effective, fieldnames, pos, out, result, samples, stats>>

\* The loop turn with row 0 always taken for a header.
PositionalStepSkipsRowZero(row, row_index, column_index) ==
    IF row_index = 0
    THEN [do |-> "continue", val |-> NaN, type |-> "", msg |-> ""]
    ELSE IF column_index >= Len(row)
    THEN [do |-> "raise", val |-> NaN, type |-> "ColumnNotFoundError", msg |-> MsgExceedsWidth]
    ELSE LET parsed == ParsePositiveFloat(Field(row[column_index + 1]))
         IN  IF parsed.ok
             THEN [do |-> "yield", val |-> parsed.val, type |-> "", msg |-> ""]
             ELSE [do |-> "raise", val |-> NaN, type |-> parsed.type, msg |-> parsed.msg]

\* The loop turn with the width check inside the header allowance.
PositionalStepShortHeader(row, row_index, column_index) ==
    IF column_index >= Len(row)
    THEN IF row_index = 0
         THEN [do |-> "continue", val |-> NaN, type |-> "", msg |-> ""]
         ELSE [do |-> "raise", val |-> NaN, type |-> "ColumnNotFoundError", msg |-> MsgExceedsWidth]
    ELSE LET value == Field(row[column_index + 1])
             parsed == ParsePositiveFloat(value)
         IN  IF parsed.ok
             THEN [do |-> "yield", val |-> parsed.val, type |-> "", msg |-> ""]
             ELSE IF row_index = 0 /\ ~FloatOf(value.text).ok
             THEN [do |-> "continue", val |-> NaN, type |-> "", msg |-> ""]
             ELSE [do |-> "raise", val |-> NaN, type |-> parsed.type, msg |-> parsed.msg]

\* One turn of the loop of _read_positional_column; row_index is pos.
PositionalStep(row, row_index, column_index) ==
    IF column_index >= Len(row)
    THEN [do |-> "raise", val |-> NaN, type |-> "ColumnNotFoundError", msg |-> MsgExceedsWidth]
    ELSE LET value == Field(row[column_index + 1])
             parsed == ParsePositiveFloat(value)
         IN  IF parsed.ok
             THEN [do |-> "yield", val |-> parsed.val, type |-> "", msg |-> ""]
             ELSE IF row_index = 0 /\ ~FloatOf(value.text).ok
             THEN [do |-> "continue", val |-> NaN, type |-> "", msg |-> ""]
             ELSE [do |-> "raise", val |-> NaN, type |-> parsed.type, msg |-> parsed.msg]

ReadPositionalRow ==
    /\ pc = "positional"
    /\ pos < Len(file)
    /\ LET step == PositionalStep(file[pos + 1], pos, column.index)
       IN  /\ pos' = pos + 1
           /\ CASE step.do = "yield" ->
                     /\ out' = Append(out, step.val)
                     /\ UNCHANGED <<pc, result>>
                [] step.do = "continue" ->
                     UNCHANGED <<out, pc, result>>
                [] OTHER ->
                     /\ Fail(step.type, step.msg,
                             IF step.msg = MsgExceedsWidth THEN ToString(column.index) ELSE "")
                     /\ out' = out
    /\ UNCHANGED <<file, column, effective, fieldnames, samples, stats>>

\* The reader is exhausted: tuple(...) completes and the series is returned.
Materialise ==
    /\ \/ pc = "named" /\ NextNonBlank(file, pos) = 0
       \/ pc = "positional" /\ pos = Len(file)
    /\ pc' = "returned"
    /\ result' = Returned(out)
    /\ pos' = Len(file)
    /\ UNCHANGED <<file, column, effective, fieldnames, out, samples, stats>>

\* main: stats = compute_gsd(series) on the series the Loader returned.
ComputeLoaded ==
    /\ pc = "returned"
    /\ result.kind = "ok"
    /\ pc' = "computed"
    /\ samples' = result.series
    /\ stats' = ComputeGsd(result.series)
    /\ UNCHANGED <<file, column, effective, fieldnames, pos, out, result>>

Next ==
    \/ OpenNamed
    \/ ReadNamedRow
    \/ OpenPositional
    \/ ReadPositionalRow
    \/ Materialise
    \/ ComputeLoaded

Spec == Init /\ [][Next]_vars

-----------------------------------------------------------------------------
(* compute_gsd called on its own *)

InitCalc ==
    /\ file = <<>>
    /\ column = Unspecified
    /\ effective = ""
    /\ pc = "calc"
    /\ fieldnames = NoFieldnames
    /\ pos = 0
    /\ out = <<>>
    /\ result = Pending
    /\ samples \in SampleSeqs
    /\ stats = NoStats

CallComputeGsd ==
    /\ pc = "calc"
    /\ pc' = "computed"
    /\ stats' = ComputeGsd(samples)
    /\ UNCHANGED <<file, column, effective, fieldnames, pos, out, result, samples>>

NextCalc == CallComputeGsd

SpecCalc == InitCalc /\ [][NextCalc]_vars

-----------------------------------------------------------------------------
(* Vocabulary of the properties: what a file holds, said without the        *)
(* loader's own operators.                                                  *)

\* load_numeric_series has returned or raised.
Loaded == pc \in {"returned", "computed"}

\* x > 0 on floats: false of NaN.
GtZero(x) == ~x.nan /\ x.m > 0

PositiveTexts == {"1", "2"}
NonPositiveTexts == {"0", "-1"}
LabelTexts == {"value"}

\* Not numeric, or numeric but <= 0.
NotPositiveTexts == LabelTexts \cup NonPositiveTexts

\* The number a decimal literal denotes.
Decimal(text) == CASE text = "1" -> Num(1, 0) [] text = "2" -> Num(2, 0)

Positional == column.kind = "index"

\* Row k (1-based) has a field at the requested index / that field.
HasField(k) == Len(file[k]) > column.index
FieldAt(k) == file[k][column.index + 1]

\* The name the named / unspecified modes select, and where the header
\* (row 1) declares it.
SelectedName ==
    IF column.kind = "name" THEN column.name
    ELSE IF Len(file) > 0 /\ Len(file[1]) > 0 THEN file[1][1]
    ELSE ""

Positions(n) == IF Len(file) = 0 THEN {} ELSE {p \in 1..Len(file[1]) : file[1][p] = n}

\* Data row k holds, under every header position declaring n, a field of S.
FieldUnderIn(k, n, S) ==
    /\ Positions(n) # {}
    /\ \A p \in Positions(n) : p <= Len(file[k]) /\ file[k][p] \in S

\* Data row k is not blank but ends before a header position declaring n.
FieldUnderMissing(k, n) ==
    /\ file[k] # <<>>
    /\ \E p \in Positions(n) : p > Len(file[k])

NonPositiveSampleCond(r) == r.kind = "error" /\ r.type = "ValueError"

MissingHeaderCond(r) ==
    r.kind = "error" /\ r.type = "ColumnNotFoundError" /\ r.msg = MsgMissingHeader

\* A data row, outside the first-row positional allowance, whose selected
\* field is not numeric or is numeric but <= 0.
BadRow(k) ==
    /\ k \in 2..Len(file)
    /\ IF Positional
       THEN HasField(k) /\ FieldAt(k) \in NotPositiveTexts
       ELSE UsesDictReader(column) /\ FieldUnderIn(k, SelectedName, NotPositiveTexts)

\* A row that has no selected field at all.
LacksField(k) ==
    IF Positional THEN ~HasField(k)
    ELSE k >= 2 /\ FieldUnderMissing(k, SelectedName)

-----------------------------------------------------------------------------
(* C1 *)

\* C1 as stated: whenever some data row's selected field is not numeric or
\* is <= 0, the call fails with the non-positive-sample condition.
C1_AsStated ==
    (Loaded /\ \E k \in 1..Len(file) : BadRow(k)) => NonPositiveSampleCond(result)

\* C1 (amended): whenever some data row's selected field is not numeric or
\* is <= 0, the call fails and returns no series; it fails with the
\* non-positive-sample condition provided no earlier row lacks the selected
\* field.
C1_FailsOnBadRow ==
    Loaded =>
        \A k \in 1..Len(file) :
            BadRow(k) =>
                /\ result.kind = "error"
                /\ result.series = <<>>
                /\ (\A j \in 1..(k - 1) : ~LacksField(j)) => NonPositiveSampleCond(result)

\* A valid row was yielded, then the third row of the file was rejected.
C1_Witness ==
    /\ pc = "returned"
    /\ column = ByName("value")
    /\ Len(file) = 3
    /\ BadRow(3)
    /\ Len(out) = 1
    /\ NonPositiveSampleCond(result)

-----------------------------------------------------------------------------
(* C2 *)

\* C2: with a header declaring the requested name and every data row
\* holding a positive number under it, the call returns exactly that
\* column's values, one per data row, in row order.
C2_NamedColumnValues ==
    ( /\ Loaded
      /\ column.kind = "name"
      /\ Positions(column.name) # {}
      /\ \A k \in 2..Len(file) : FieldUnderIn(k, column.name, PositiveTexts) )
    => \E p \in Positions(column.name) :
           result = Returned([k \in 1..(Len(file) - 1) |-> Decimal(file[k + 1][p])])

\* Two data rows with different values under "value" and another column
\* that holds no number.
C2_Witness ==
    /\ pc = "returned"
    /\ column = ByName("value")
    /\ file = << <<"value", "1">>, <<"1", "value">>, <<"2", "0">> >>
    /\ result = Returned(<<Num(1, 0), Num(2, 0)>>)

-----------------------------------------------------------------------------
(* C3 *)

\* C3 as stated: named or unspecified column and a source with no header
\* row at all: the call fails with the missing-header condition.
C3_MissingHeader ==
    (Loaded /\ UsesDictReader(column) /\ Len(file) = 0) => MissingHeaderCond(result)

-----------------------------------------------------------------------------
(* C4 *)

\* C4 as stated: in positional mode a first row whose value at the index is
\* not a positive number (not numeric, or numeric but <= 0) is skipped
\* without error and loading continues with the remaining rows.
C4_FirstRowSkipped ==
    ( /\ Loaded
      /\ Positional
      /\ Len(file) >= 1
      /\ HasField(1) /\ FieldAt(1) \in NotPositiveTexts
      /\ \A k \in 2..Len(file) : HasField(k) /\ FieldAt(k) \in PositiveTexts )
    => result = Returned([k \in 1..(Len(file) - 1) |-> Decimal(FieldAt(k + 1))])

-----------------------------------------------------------------------------
(* C5 *)

\* C5: positional mode, every row wide enough, rows 1..n positive numbers:
\* a non-numeric row 0 is skipped and exactly the n values are returned in
\* row order; a positive row 0 is kept as the first element.
C5_PositionalValues ==
    ( /\ Loaded
      /\ Positional
      /\ Len(file) >= 1
      /\ \A k \in 1..Len(file) : HasField(k)
      /\ \A k \in 2..Len(file) : FieldAt(k) \in PositiveTexts )
    => /\ FieldAt(1) \in LabelTexts =>
              result = Returned([k \in 1..(Len(file) - 1) |-> Decimal(FieldAt(k + 1))])
       /\ FieldAt(1) \in PositiveTexts =>
              result = Returned([k \in 1..Len(file) |-> Decimal(FieldAt(k))])

\* A label in row 0, then two different positive numbers, read at index 1.
C5_Witness ==
    /\ pc = "returned"
    /\ column = ByIndex(1)
    /\ file = << <<"1", "value">>, <<"0", "2">>, <<"value", "1">> >>
    /\ result = Returned(<<Num(2, 0), Num(1, 0)>>)

-----------------------------------------------------------------------------
(* C8 *)

\* C8: a column name that the header row does not declare fails with the
\* column-not-found condition naming that column, whatever the data rows.
C8_ColumnNotFound ==
    ( /\ Loaded
      /\ column.kind = "name"
      /\ Len(file) >= 1
      /\ Positions(column.name) = {} )
    => result = Raised("ColumnNotFoundError", MsgNotInHeader, column.name)

\* The header lacks the name and the data rows hold invalid values.
C8_Witness ==
    /\ pc = "returned"
    /\ column = ByName("value")
    /\ file = << <<"1", "2">>, <<"0">>, <<>> >>
    /\ result = Raised("ColumnNotFoundError", MsgNotInHeader, "value")

-----------------------------------------------------------------------------
(* C9 *)

\* C9 as stated: every series the Loader returns holds only elements > 0,
\* compute_gsd on it can fail only for fewer than 2 elements, and a header
\* with zero data rows loads as the empty series.
C9_SeriesPositive ==
    /\ (Loaded /\ result.kind = "ok") =>
           \A i \in 1..Len(result.series) : GtZero(result.series[i])
    /\ (pc = "computed" /\ stats.kind = "error") =>
           (Len(samples) < 2 /\ stats.msg = MsgTooFew)
    /\ (Loaded /\ Len(file) = 1 /\ column.kind = "name" /\ Positions(column.name) # {}) =>
           result = Returned(<<>>)

-----------------------------------------------------------------------------
(* C10 *)

ColumnNotFoundCond(r) ==
    r = Raised("ColumnNotFoundError", MsgExceedsWidth, ToString(column.index))

\* The per-field parse of row j fails (a non-numeric first row is skipped).
ParseFails(j) ==
    /\ HasField(j)
    /\ FieldAt(j) \in NotPositiveTexts
    /\ ~(j = 1 /\ FieldAt(j) \in LabelTexts)

\* C10 as stated: positional mode, some row has fewer than i+1 fields: the
\* load fails with the column-not-found condition.  (Files whose first row
\* holds a number <= 0 at the index are left to C4.)
C10_AsStated ==
    ( /\ Loaded
      /\ Positional
      /\ \E k \in 1..Len(file) : ~HasField(k)
      /\ ~(Len(file) >= 1 /\ HasField(1) /\ FieldAt(1) \in NonPositiveTexts) )
    => ColumnNotFoundCond(result)

\* C10 (amended): positional mode, some row has fewer than i+1 fields: the
\* load fails and returns no series; it fails with the column-not-found
\* condition provided no earlier row fails the per-field parse.  The first
\* row gets no header allowance for this.
C10_ShortRow ==
    (Loaded /\ Positional) =>
        \A k \in 1..Len(file) :
            ~HasField(k) =>
                /\ result.kind = "error"
                /\ result.series = <<>>
                /\ (\A j \in 1..(k - 1) : ~ParseFails(j)) => ColumnNotFoundCond(result)

\* The first row is the short one, and rows follow it.
C10_Witness ==
    /\ pc = "returned"
    /\ column = ByIndex(1)
    /\ Len(file) = 3
    /\ file[1] = <<"value">>
    /\ out = <<>>
    /\ ColumnNotFoundCond(result)

-----------------------------------------------------------------------------
(* C6, C7: compute_gsd *)

NonPositiveStats(r) ==
    r.kind = "error" /\ r.type = "StatisticsError" /\ r.msg = MsgNotPositive

InsufficientStats(r) ==
    r.kind = "error" /\ r.type = "StatisticsError" /\ r.msg = MsgTooFew

\* C6 as stated: any sequence with a value <= 0 fails with the
\* non-positive-sample condition, however many samples it has.
C6_AsStated ==
    (pc = "computed" /\ \E i \in 1..Len(samples) : LeZero(samples[i]))
    => NonPositiveStats(stats)

\* C6 (amended): a sequence of at least two samples with a value <= 0 at any
\* position fails with the non-positive-sample condition; a shorter one
\* fails with the insufficient-samples condition instead.  No result either
\* way.
C6_NonPositiveRejected ==
    (pc = "computed" /\ \E i \in 1..Len(samples) : LeZero(samples[i]))
    => /\ stats.kind = "error"
       /\ Len(samples) >= 2 => NonPositiveStats(stats)
       /\ Len(samples) < 2 => InsufficientStats(stats)

\* The value <= 0 is the last of three samples.
C6_Witness ==
    /\ pc = "computed"
    /\ samples = <<Num(1, 0), Num(2, 0), Num(0, 0)>>
    /\ NonPositiveStats(stats)

\* C7 as stated: fewer than two samples fail with the insufficient-samples
\* condition; two or more strictly positive samples give a result whose
\* sample_size is the length of the sequence.
C7_SampleSize ==
    pc = "computed" =>
        /\ Len(samples) < 2 => InsufficientStats(stats)
        /\ (Len(samples) >= 2 /\ \A i \in 1..Len(samples) : GtZero(samples[i]))
               => (stats.kind = "ok" /\ stats.sample_size = Len(samples))

====
